---------------------------- MODULE Spec2Model ----------------------------
(***************************************************************************)
(* The stock_etl DAG of dags/stock_etl_dag.py: three PythonOperator tasks  *)
(* (extract_task >> transform_task >> load_task) run by the Airflow        *)
(* scheduler with retries, exchanging batches through XCom and appending   *)
(* to the stock_data table inside one engine.begin() transaction.          *)
(*                                                                         *)
(* Values.  A JSON value that may be null is a sequence: <<>> is null and  *)
(* <<v>> is the value v.  Prices are whole numbers of price ticks and      *)
(* volumes whole numbers; on that grid json.dumps, json.loads, to_json     *)
(* (10 decimal places) and read_json keep every number, so a batch is      *)
(* modelled by its sequence of records.  A timestamp is the number of      *)
(* whole seconds since the epoch, which "%Y-%m-%dT%H:%M:%S" prints one to  *)
(* one.                                                                    *)
(***************************************************************************)
EXTENDS Integers, Sequences, FiniteSets, TLC

\* Bounds of the model.
MaxBars == 2
MaxRuns == 2

\* default_args['retries']
retries == 3

\* os.getenv("STOCK_TICKERS", ...).split(","), here configured with two symbols
STOCK_TICKERS == <<"NVDA", "TSLA">>

None == <<>>
Some(v) == <<v>>

---------------------------------------------------------------------------
\* The market-data API: what one requests.get(url) can produce.

\* Raw aggregate entries {t, o, h, l, c, v} of a results payload.  The second
\* entry falls in the same second as the first (another volume), the third
\* has the first one's t and a null close.
RawItems ==
    { [t |-> 60000, o |-> Some(10), h |-> Some(12), l |-> Some(9), c |-> Some(11), v |-> Some(100)],
      [t |-> 60500, o |-> Some(10), h |-> Some(12), l |-> Some(9), c |-> Some(11), v |-> Some(200)],
      [t |-> 60000, o |-> Some(10), h |-> Some(12), l |-> Some(9), c |-> None, v |-> Some(300)] }

RECURSIVE SeqsUpTo(_, _)
SeqsUpTo(S, n) ==
    IF n = 0 THEN {<<>>}
    ELSE LET shorter == SeqsUpTo(S, n - 1)
         IN  shorter \cup {Append(s, x) : s \in shorter, x \in S}

Payloads == SeqsUpTo(RawItems, MaxBars)

\* A response: requests.get raised (raises), or answered with status_code and
\* a JSON body that has a "results" key (has_results) holding results.
Responses ==
    { [raises |-> TRUE, status_code |-> 0, has_results |-> FALSE, results |-> <<>>] }
    \cup { [raises |-> FALSE, status_code |-> 200, has_results |-> TRUE, results |-> p] : p \in Payloads }
    \cup { [raises |-> FALSE, status_code |-> 200, has_results |-> FALSE, results |-> <<>>] }
    \cup { [raises |-> FALSE, status_code |-> s, has_results |-> FALSE, results |-> <<>>] : s \in {429, 500} }
    \cup { [raises |-> FALSE, status_code |-> 404, has_results |-> TRUE, results |-> p] :
              p \in {q \in Payloads : Len(q) = 1} }

---------------------------------------------------------------------------
\* extract_data

\* datetime.utcfromtimestamp(item["t"] / 1000).strftime("%Y-%m-%dT%H:%M:%S"):
\* the milliseconds are dropped.
to_timestamp(t) == t \div 1000

to_record(ticker, item) ==
    [ticker |-> ticker, timestamp |-> to_timestamp(item.t),
     open |-> item.o, high |-> item.h, low |-> item.l,
     close |-> item.c, volume |-> item.v]

\* for item in data["results"]: all_data.append({...})
RECURSIVE append_results(_, _, _)
append_results(all_data, ticker, results) ==
    IF results = <<>> THEN all_data
    ELSE append_results(Append(all_data, to_record(ticker, Head(results))),
                        ticker, Tail(results))

\* Mutant of status_ok: only server errors are skipped.
status_ok_lenient(response) == response.status_code < 500

\* if response.status_code == 200
status_ok(response) == response.status_code = 200

\* if "results" in data and data["results"]
has_payload(response) == response.has_results /\ response.results # <<>>

\* One pass of "for ticker in STOCK_TICKERS" from the i-th ticker on, under the
\* responses resp.  acc holds all_data, the tickers requested so far and
\* whether requests.get raised, which ends the loop and the function.
RECURSIVE fetch_loop(_, _, _)
fetch_loop(i, resp, acc) ==
    IF i > Len(STOCK_TICKERS) THEN acc
    ELSE LET ticker == STOCK_TICKERS[i]
             response == resp[i]
             asked == Append(acc.requested, ticker)
         IN  IF response.raises
             THEN [acc EXCEPT !.requested = asked, !.raised = TRUE]
             ELSE IF status_ok(response)
             THEN fetch_loop(i + 1, resp,
                      [acc EXCEPT !.requested = asked,
                                  !.all_data = IF has_payload(response)
                                               THEN append_results(@, ticker, response.results)
                                               ELSE @])
             ELSE fetch_loop(i + 1, resp, [acc EXCEPT !.requested = asked])

fetch_all(resp) ==
    fetch_loop(1, resp, [all_data |-> <<>>, requested |-> <<>>, raised |-> FALSE])

---------------------------------------------------------------------------
\* transform_data

Fields == {"open", "high", "low", "close", "volume"}

\* Mutant of df_empty: the empty batch is not recognised.
df_empty_never(df) == FALSE

\* df.empty
df_empty(df) == Len(df) = 0

is_complete(row) == \A f \in Fields : row[f] # None

\* Mutant of dropna: how="all", a row is dropped only when every field is null.
dropna_how_all(df) == SelectSeq(df, LAMBDA row : \E f \in Fields : row[f] # None)

\* df.dropna(inplace=True): ticker and timestamp are never null in a batch
\* extract_data built.
dropna(df) == SelectSeq(df, is_complete)

\* subset=["ticker", "timestamp"]
subset_key(row) == <<row.ticker, row.timestamp>>

\* df.drop_duplicates(subset=[...], inplace=True), keep="first"
RECURSIVE drop_dups(_, _, _)
drop_dups(df, seen, out) ==
    IF df = <<>> THEN out
    ELSE LET row == Head(df)
         IN  IF subset_key(row) \in seen
             THEN drop_dups(Tail(df), seen, out)
             ELSE drop_dups(Tail(df), seen \cup {subset_key(row)}, Append(out, row))

\* Mutant of drop_duplicates: no subset, only rows equal in every column are
\* duplicates.
RECURSIVE drop_equal_rows(_, _)
drop_equal_rows(df, out) ==
    IF df = <<>> THEN out
    ELSE IF \E i \in 1..Len(out) : out[i] = Head(df)
         THEN drop_equal_rows(Tail(df), out)
         ELSE drop_equal_rows(Tail(df), Append(out, Head(df)))

drop_duplicates_no_subset(df) == drop_equal_rows(df, <<>>)

\* Mutant of drop_duplicates: keep="last".
RECURSIVE reverse(_)
reverse(df) == IF df = <<>> THEN <<>> ELSE Append(reverse(Tail(df)), Head(df))

drop_duplicates_keep_last(df) == reverse(drop_dups(reverse(df), {}, <<>>))

drop_duplicates(df) == drop_dups(df, {}, <<>>)

---------------------------------------------------------------------------
\* load_data and the stock_data table

\* if not transformed_json: None is falsy, and so is no text to_json returns
\* (an empty frame is printed "[]").
is_falsy(transformed_json) == transformed_json = None

\* pd.read_json(StringIO(transformed_json)) and the parameters of one INSERT:
\* one row per record, the fields' values.
to_row(rec) ==
    [ticker |-> rec.ticker, timestamp |-> rec.timestamp,
     open |-> rec.open[1], high |-> rec.high[1], low |-> rec.low[1],
     close |-> rec.close[1], volume |-> rec.volume[1]]

read_json(records) == [i \in 1..Len(records) |-> to_row(records[i])]

\* engine.begin(): a connection with an open transaction.  The transaction
\* holds what its statements did and the store has not made durable yet.
begin == [created |-> FALSE, inserted |-> <<>>]

\* CREATE TABLE IF NOT EXISTS stock_data (...)
create_table(tx) == [tx EXCEPT !.created = TRUE]

\* INSERT INTO stock_data (...) VALUES (...); id SERIAL is the row's position.
insert(tx, row) == [tx EXCEPT !.inserted = Append(@, row)]

\* Mutant of commit: rows whose (ticker, timestamp) the table holds are skipped.
commit_skip_existing(db, tx) ==
    [exists |-> db.exists \/ tx.created,
     rows |-> db.rows \o SelectSeq(tx.inserted,
                  LAMBDA row : \A i \in 1..Len(db.rows) :
                      <<db.rows[i].ticker, db.rows[i].timestamp>> # <<row.ticker, row.timestamp>>)]

\* The with block left normally: COMMIT.
commit(db, tx) ==
    [exists |-> db.exists \/ tx.created, rows |-> db.rows \o tx.inserted]

\* Mutant of rollback: every statement was committed as it ran (autocommit).
rollback_autocommit(db, tx) ==
    [exists |-> db.exists \/ tx.created, rows |-> db.rows \o tx.inserted]

\* The with block left by an exception: ROLLBACK (DDL included).
rollback(db, tx) == db

\* The statements of the with block in order, the first n of them executed:
\* statement 1 is CREATE TABLE, statement k + 1 the INSERT of df[k].
RECURSIVE execute(_, _, _)
execute(tx, df, n) ==
    IF n = 0 THEN tx
    ELSE IF n = 1 THEN create_table(execute(tx, df, 0))
    ELSE insert(execute(tx, df, n - 1), df[n - 1])

---------------------------------------------------------------------------
\* The DAG and the scheduler

Tasks == {"extract_task", "transform_task", "load_task"}

\* Mutant of upstream: the tasks are not chained.
upstream_unchained(task) == {}

\* extract_task >> transform_task >> load_task
upstream(task) ==
    IF task = "transform_task" THEN {"extract_task"}
    ELSE IF task = "load_task" THEN {"transform_task"}
    ELSE {}

\* The XCom key each task pushes.
pushes(task) ==
    IF task = "extract_task" THEN {"raw_data"}
    ELSE IF task = "transform_task" THEN {"transformed_data"}
    ELSE {}

Finished == {"success", "failed", "upstream_failed"}

VARIABLES
    run,            \* number of DAG runs started
    state,          \* state of each task instance of the current run
    try_number,     \* attempts of each task instance started so far
    xcom,           \* XCom of the current run: key -> null or <<value>>
    stock_db,       \* the store: whether stock_data exists, and its rows
    responses,      \* the responses the last extract_data attempt received
    requested,      \* the tickers the last extract_data attempt requested
    transform_in,   \* what the last transform_data attempt pulled
    load_in,        \* what the last load_data attempt pulled
    db_log,         \* the last load_data attempt's connections and executed statements
    rolled_back,    \* rows the run's last failed load_data attempt had inserted
    db_at_start     \* the store when the current run started

vars == <<run, state, try_number, xcom, stock_db, responses, requested,
          transform_in, load_in, db_log, rolled_back, db_at_start>>

NoXCom == [raw_data |-> None, transformed_data |-> None]
NotPulled == [pulled |-> FALSE, value |-> None]
NoDbCalls == [connections |-> 0, statements |-> 0]

Init ==
    /\ run = 0
    /\ state = [task \in Tasks |-> "none"]
    /\ try_number = [task \in Tasks |-> 0]
    /\ xcom = NoXCom
    /\ stock_db = [exists |-> FALSE, rows |-> <<>>]
    /\ responses = <<>>
    /\ requested = <<>>
    /\ transform_in = NotPulled
    /\ load_in = NotPulled
    /\ db_log = NoDbCalls
    /\ rolled_back = 0
    /\ db_at_start = [exists |-> FALSE, rows |-> <<>>]

\* schedule_interval='@hourly': the next run, once the current one is over.
StartRun ==
    /\ run < MaxRuns
    /\ run = 0 \/ \A task \in Tasks : state[task] \in Finished
    /\ run' = run + 1
    /\ state' = [task \in Tasks |-> "none"]
    /\ try_number' = [task \in Tasks |-> 0]
    /\ xcom' = NoXCom
    /\ responses' = <<>>
    /\ requested' = <<>>
    /\ transform_in' = NotPulled
    /\ load_in' = NotPulled
    /\ db_log' = NoDbCalls
    /\ rolled_back' = 0
    /\ db_at_start' = stock_db
    /\ UNCHANGED stock_db

\* The scheduler starts a task instance (first try or retry) once every
\* upstream task succeeded; the instance's earlier XComs are cleared.
Schedule(task) ==
    /\ run > 0
    /\ state[task] \in {"none", "up_for_retry"}
    /\ \A up \in upstream(task) : state[up] = "success"
    /\ state' = [state EXCEPT ![task] = "running"]
    /\ try_number' = [try_number EXCEPT ![task] = @ + 1]
    /\ xcom' = [key \in DOMAIN xcom |-> IF key \in pushes(task) THEN None ELSE xcom[key]]
    /\ UNCHANGED <<run, stock_db, responses, requested, transform_in, load_in,
                   db_log, rolled_back, db_at_start>>

\* A task whose upstream failed is never run.
UpstreamFailed(task) ==
    /\ run > 0
    /\ state[task] = "none"
    /\ \E up \in upstream(task) : state[up] \in {"failed", "upstream_failed"}
    /\ state' = [state EXCEPT ![task] = "upstream_failed"]
    /\ UNCHANGED <<run, try_number, xcom, stock_db, responses, requested,
                   transform_in, load_in, db_log, rolled_back, db_at_start>>

\* An exception left the callable: 'retries': 3 more tries, then failed.
after_failure(task) ==
    [state EXCEPT ![task] = IF try_number[task] <= retries THEN "up_for_retry" ELSE "failed"]

after_success(task) == [state EXCEPT ![task] = "success"]

extract_data ==
    /\ state["extract_task"] = "running"
    /\ \E resp \in [1..Len(STOCK_TICKERS) -> Responses] :
          LET got == fetch_all(resp)
          IN  /\ responses' = resp
              /\ requested' = got.requested
              /\ IF got.raised
                 THEN /\ state' = after_failure("extract_task")
                      /\ UNCHANGED xcom
                 ELSE /\ state' = after_success("extract_task")
                      /\ xcom' = [xcom EXCEPT !.raw_data = Some(got.all_data)]
    /\ UNCHANGED <<run, try_number, stock_db, transform_in, load_in, db_log, rolled_back, db_at_start>>

transform_data ==
    /\ state["transform_task"] = "running"
    /\ LET raw_data == xcom.raw_data
       IN  /\ transform_in' = [pulled |-> TRUE, value |-> raw_data]
           /\ IF raw_data = None
              THEN \* json.loads(None) raises TypeError
                   /\ state' = after_failure("transform_task")
                   /\ UNCHANGED xcom
              ELSE LET df == raw_data[1]
                   IN  /\ state' = after_success("transform_task")
                       /\ IF df_empty(df)
                          THEN UNCHANGED xcom
                          ELSE xcom' = [xcom EXCEPT !.transformed_data =
                                           Some(drop_duplicates(dropna(df)))]
    /\ UNCHANGED <<run, try_number, stock_db, responses, requested, load_in,
                   db_log, rolled_back, db_at_start>>

\* load_data returning at "No transformed data to load."
load_nothing ==
    /\ state["load_task"] = "running"
    /\ is_falsy(xcom.transformed_data)
    /\ load_in' = [pulled |-> TRUE, value |-> xcom.transformed_data]
    /\ db_log' = NoDbCalls
    /\ state' = after_success("load_task")
    /\ UNCHANGED <<run, try_number, xcom, stock_db, responses, requested,
                   transform_in, rolled_back, db_at_start>>

\* load_data running to its end: every statement executed, then COMMIT.
load_commit ==
    /\ state["load_task"] = "running"
    /\ ~is_falsy(xcom.transformed_data)
    /\ load_in' = [pulled |-> TRUE, value |-> xcom.transformed_data]
    /\ LET df == read_json(xcom.transformed_data[1])
           tx == execute(begin, df, Len(df) + 1)
       IN  /\ stock_db' = commit(stock_db, tx)
           /\ db_log' = [connections |-> 1, statements |-> Len(df) + 1]
    /\ state' = after_success("load_task")
    /\ UNCHANGED <<run, try_number, xcom, responses, requested, transform_in,
                   rolled_back, db_at_start>>

\* load_data left by a database error: the connection cannot be opened
\* (fail_at = 0) or statement fail_at raises after fail_at - 1 were executed.
load_error ==
    /\ state["load_task"] = "running"
    /\ ~is_falsy(xcom.transformed_data)
    /\ load_in' = [pulled |-> TRUE, value |-> xcom.transformed_data]
    /\ LET df == read_json(xcom.transformed_data[1])
       IN  \E fail_at \in 0..(Len(df) + 1) :
              IF fail_at = 0
              THEN /\ UNCHANGED stock_db
                   /\ db_log' = [connections |-> 1, statements |-> 0]
                   /\ rolled_back' = 0
              ELSE LET tx == execute(begin, df, fail_at - 1)
                   IN  /\ stock_db' = rollback(stock_db, tx)
                       /\ db_log' = [connections |-> 1, statements |-> fail_at]
                       /\ rolled_back' = Len(tx.inserted)
    /\ state' = after_failure("load_task")
    /\ UNCHANGED <<run, try_number, xcom, responses, requested, transform_in, db_at_start>>

load_data == load_nothing \/ load_commit \/ load_error

Next ==
    \/ StartRun
    \/ \E task \in Tasks : Schedule(task)
    \/ \E task \in Tasks : UpstreamFailed(task)
    \/ extract_data
    \/ transform_data
    \/ load_data

Spec == Init /\ [][Next]_vars

---------------------------------------------------------------------------
\* Properties

Key(rec) == <<rec.ticker, rec.timestamp>>

Complete(rec) ==
    /\ rec.open # None /\ rec.high # None /\ rec.low # None
    /\ rec.close # None /\ rec.volume # None

\* The last transform_data attempt ran to its end on the batch CleanerIn.
Cleaned == transform_in.pulled /\ state["transform_task"] = "success"
CleanerIn == transform_in.value[1]
HasOutput == xcom.transformed_data # None
CleanerOut == xcom.transformed_data[1]

RECURSIVE IsSubsequence(_, _)
IsSubsequence(a, b) ==
    IF a = <<>> THEN TRUE
    ELSE IF b = <<>> THEN FALSE
    ELSE IF Head(a) = Head(b) THEN IsSubsequence(Tail(a), Tail(b))
    ELSE IsSubsequence(a, Tail(b))

\* The records of the i-th ticker under the responses resp: those of a 200
\* answer with a non-empty results payload, in response order.
RecordsOf(resp, i) ==
    IF ~resp[i].raises /\ resp[i].status_code = 200 /\ resp[i].has_results
    THEN [k \in 1..Len(resp[i].results) |->
             [ticker |-> STOCK_TICKERS[i],
              timestamp |-> resp[i].results[k].t \div 1000,
              open |-> resp[i].results[k].o, high |-> resp[i].results[k].h,
              low |-> resp[i].results[k].l, close |-> resp[i].results[k].c,
              volume |-> resp[i].results[k].v]]
    ELSE <<>>

RECURSIVE ConcatUpTo(_, _)
ConcatUpTo(resp, n) ==
    IF n = 0 THEN <<>> ELSE ConcatUpTo(resp, n - 1) \o RecordsOf(resp, n)

ExpectedBatch(resp) == ConcatUpTo(resp, Len(STOCK_TICKERS))

\* The last extract_data attempt is over, under the responses in responses.
Fetched == responses # <<>> /\ state["extract_task"] # "running"

\* C1: the batch transform_data hands on holds no two records with the same
\* (ticker, timestamp) pair.
C1_UniqueKeys ==
    HasOutput =>
        \A i, j \in 1..Len(CleanerOut) :
            i # j => Key(CleanerOut[i]) # Key(CleanerOut[j])

\* C1 witness: a batch with two fully populated records of one key was cleaned.
C1_Witness ==
    /\ Cleaned /\ HasOutput
    /\ \E i, j \in 1..Len(CleanerIn) :
          /\ i < j /\ Key(CleanerIn[i]) = Key(CleanerIn[j])
          /\ Complete(CleanerIn[i]) /\ Complete(CleanerIn[j])

\* C8 as stated: among the input records sharing one key, the output holds the
\* first in input order and none of the later ones.
C8_FirstOccurrenceKept ==
    Cleaned /\ HasOutput =>
        \A i \in 1..Len(CleanerIn) :
            (/\ \A j \in 1..(i - 1) : Key(CleanerIn[j]) # Key(CleanerIn[i])
             /\ \E j \in (i + 1)..Len(CleanerIn) : Key(CleanerIn[j]) = Key(CleanerIn[i])) =>
                SelectSeq(CleanerOut, LAMBDA rec : Key(rec) = Key(CleanerIn[i]))
                    = <<CleanerIn[i]>>

\* C8 amended: among the fully populated input records sharing one key, the
\* output holds the first in input order and none of the later ones; records
\* with a null field are dropped before the comparison and keep no place.
C8_FirstCompleteOccurrenceKept ==
    Cleaned /\ HasOutput =>
        \A i \in 1..Len(CleanerIn) :
            (/\ Complete(CleanerIn[i])
             /\ \A j \in 1..(i - 1) :
                   Complete(CleanerIn[j]) => Key(CleanerIn[j]) # Key(CleanerIn[i])) =>
                SelectSeq(CleanerOut, LAMBDA rec : Key(rec) = Key(CleanerIn[i]))
                    = <<CleanerIn[i]>>

\* C8 witness: two fully populated records of one key and different volumes;
\* the first is in the output and the second is not.
C8_Witness ==
    /\ Cleaned /\ HasOutput
    /\ \E i, j \in 1..Len(CleanerIn) :
          /\ i < j /\ Key(CleanerIn[i]) = Key(CleanerIn[j])
          /\ Complete(CleanerIn[i]) /\ Complete(CleanerIn[j])
          /\ CleanerIn[i].volume # CleanerIn[j].volume
          /\ \E k \in 1..Len(CleanerOut) : CleanerOut[k] = CleanerIn[i]
          /\ \A k \in 1..Len(CleanerOut) : CleanerOut[k] # CleanerIn[j]

C5_BatchOfOkTickers ==
    Fetched /\ (\A i \in 1..Len(responses) : ~responses[i].raises) =>
        /\ state["extract_task"] = "success"
        /\ xcom.raw_data = Some(ExpectedBatch(responses))
        /\ \A i \in 1..Len(responses) :
              responses[i].status_code # 200 =>
                  \A k \in 1..Len(xcom.raw_data[1]) :
                      xcom.raw_data[1][k].ticker # STOCK_TICKERS[i]

\* C5 witness: one ticker answered a non-200 status with a body, a later one
\* answered 200 with two bars, and the batch holds the second one's two records.
C5_Witness ==
    /\ Fetched /\ state["extract_task"] = "success"
    /\ \E i, j \in 1..Len(responses) :
          /\ i < j
          /\ ~responses[i].raises /\ responses[i].status_code # 200
          /\ responses[i].results # <<>>
          /\ responses[j].status_code = 200 /\ Len(responses[j].results) = 2
    /\ Len(xcom.raw_data[1]) = 2

\* C4 as stated: a fetch error of one ticker (a non-success response or an
\* exception of the request) stays inside extract_data: every ticker is still
\* requested, the stage succeeds and the batch only lacks that ticker's data.
C4_FetchErrorsStayInside ==
    Fetched =>
        /\ requested = STOCK_TICKERS
        /\ state["extract_task"] = "success"
        /\ xcom.raw_data = Some(ExpectedBatch(responses))

\* C6: when the batch extract_data published is empty, transform_data
\* publishes nothing, load_data opens no connection and executes no statement
\* in the whole run, and neither stage fails.
C6_EmptyBatchNoDatabase ==
    xcom.raw_data = Some(<<>>) =>
        /\ xcom.transformed_data = None
        /\ state["transform_task"] \in {"none", "running", "success"}
        /\ state["load_task"] \in {"none", "running", "success"}
        /\ load_in.pulled => load_in.value = None
        /\ db_log = NoDbCalls
        /\ stock_db = db_at_start

\* C6 witness: a run over an empty fetched batch came to its end.
C6_Witness ==
    /\ xcom.raw_data = Some(<<>>)
    /\ state["transform_task"] = "success"
    /\ state["load_task"] = "success"
    /\ load_in.pulled

\* C3 as stated: whenever the batch load_data pulled is absent or holds zero
\* records, it opens no connection and executes no statement.
C3_NoRecordsNoDatabase ==
    (/\ load_in.pulled
     /\ state["load_task"] # "running"
     /\ load_in.value = None \/ load_in.value = Some(<<>>)) =>
        /\ db_log = NoDbCalls
        /\ state["load_task"] = "success"

\* The number of records of the batch load_data pulled.
BatchSize(value) == IF value = None THEN 0 ELSE Len(value[1])

\* C2: a load_data attempt that fails (connecting, creating the table or at
\* any insert) leaves the table as it was, and once a retry succeeds the table
\* has grown by exactly the N records of the batch.
C2_AllOrNothing ==
    /\ state["load_task"] # "success" => stock_db = db_at_start
    /\ state["load_task"] = "success" =>
          /\ Len(stock_db.rows) = Len(db_at_start.rows) + BatchSize(load_in.value)
          /\ SubSeq(stock_db.rows, 1, Len(db_at_start.rows)) = db_at_start.rows

\* C2 witness: an attempt failed after inserting rows, a retry succeeded on
\* the same batch of two or more records.
C2_Witness ==
    /\ state["load_task"] = "success"
    /\ try_number["load_task"] > 1
    /\ rolled_back >= 1
    /\ BatchSize(load_in.value) >= 2
    /\ Len(stock_db.rows) = Len(db_at_start.rows) + BatchSize(load_in.value)

LoadSucceeds == state["load_task"] = "running" /\ state'["load_task"] = "success"

\* C7: every successful load_data call with a batch of N records adds exactly
\* N rows, the batch's records in order, after the rows the table held, which
\* stay as they were, whatever they are.
C7_AppendOnly ==
    [][LoadSucceeds =>
          LET n == BatchSize(xcom.transformed_data)
              before == Len(stock_db.rows)
          IN  /\ Len(stock_db'.rows) = before + n
              /\ SubSeq(stock_db'.rows, 1, before) = stock_db.rows
              /\ \A k \in 1..n :
                    /\ stock_db'.rows[before + k].ticker = xcom.transformed_data[1][k].ticker
                    /\ stock_db'.rows[before + k].timestamp = xcom.transformed_data[1][k].timestamp
                    /\ stock_db'.rows[before + k].volume = xcom.transformed_data[1][k].volume[1]
      ]_vars

\* C7 witness: the second run loaded the batch the first run had loaded; the
\* table holds every record twice.
C7_Witness ==
    /\ run = 2
    /\ state["load_task"] = "success"
    /\ db_at_start.rows # <<>>
    /\ stock_db.rows = db_at_start.rows \o db_at_start.rows

Started(task) == state[task] # "none" /\ state[task] # "upstream_failed"

\* What transform_data publishes for the batch it pulled.
PublishedFor(raw) ==
    IF raw = <<>> THEN None ELSE Some(drop_duplicates(dropna(raw)))

\* C10: in every run, retries included, transform_task starts only after
\* extract_task succeeded and published its batch, load_task only after
\* transform_task succeeded, and each reads the whole batch the stage before
\* it published in this run.
C10_StageOrder ==
    /\ Started("transform_task") =>
          /\ state["extract_task"] = "success"
          /\ xcom.raw_data = Some(ExpectedBatch(responses))
    /\ Started("load_task") => state["transform_task"] = "success"
    /\ transform_in.pulled =>
          /\ Started("transform_task")
          /\ transform_in.value = Some(ExpectedBatch(responses))
    /\ load_in.pulled =>
          /\ Started("load_task")
          /\ load_in.value = PublishedFor(transform_in.value[1])

\* C10 witness: a run in which extract_task and load_task were both retried
\* and load_task read a non-empty batch.
C10_Witness ==
    /\ try_number["extract_task"] > 1
    /\ try_number["load_task"] > 1
    /\ load_in.pulled
    /\ BatchSize(load_in.value) >= 1
    /\ state["load_task"] = "success"

====
